---- MODULE Spec2Model ----
(***************************************************************************)
(* Model of pypower/opf_args.py: the function opf_args, argument resolver  *)
(* of the OPF front end.  One call is modelled as a small state machine    *)
(* whose steps are the blocks of the function body:                        *)
(*                                                                         *)
(*   Dispatch    lines  86-167 / 201-269   classify and destructure        *)
(*   LoadMerge   lines 169-191             loadcase + case merge           *)
(*   MakePpc     lines 271-276             build ppc from the six tables   *)
(*   Validate    lines 277-299             dimension / sparsity checks     *)
(*   Assemble    lines 300-327             options default, ppc, return    *)
(*                                                                         *)
(* Python values are abstracted to records that keep what the function     *)
(* observes of them: the type (kind), the shape, the outcome of the        *)
(* builtin any() on them, and where the value came from (pos).  The module *)
(* imports only `array` from numpy, so every any(...) in the body is the   *)
(* builtin: it raises TypeError on None and on a function, and ValueError  *)
(* when a row of a matrix has an ambiguous truth value.                    *)
(*                                                                         *)
(* The body is modelled as it runs once the module is loaded, with         *)
(* `logger` a logging.Logger (line 24 reads logging.gerLogger).            *)
(***************************************************************************)
EXTENDS Integers, Sequences, FiniteSets, TLC

\* ------------------------------------------------------------------ bounds
MaxNargin == 18
MaxDim == 2

\* -------------------------------------------------------- abstract values
\* kind : "unbound" (local never assigned), "nofield" (key not in the case),
\*        "None", "array" (numpy ndarray), "spmatrix", "function", "dict",
\*        "str", "tuple", "list", "scalar"
\* ndim : number of axes of the shape (0 when the value has no shape)
\* anyv : outcome of builtin any(v): "True", "False", "TypeError", "ValueError"
\* pos  : 1-based position in args of a value the caller passed,
\*        0 for a value taken from the loaded case, -1 for a value that
\*        opf_args creates itself, -2 for the ppc being assembled
Val(kind, ndim, rows, cols, anyv, pos) ==
    [kind |-> kind, ndim |-> ndim, rows |-> rows, cols |-> cols,
     anyv |-> anyv, pos |-> pos]

Unbound == Val("unbound", 0, 0, 0, "TypeError", -1)
NoField == Val("nofield", 0, 0, 0, "TypeError", 0)
\* array([])
EmptyArray == Val("array", 1, 0, 0, "False", -1)
NoneVal == Val("None", 0, 0, 0, "TypeError", -1)
\* the default options table of the ppoption module
ppoption == Val("dict", 0, 1, 0, "True", -1)
\* the dict built at line 272 / the object returned by loadcase
PpcRef == Val("dict", 0, 5, 0, "True", -2)

At(v, p) == [v EXCEPT !.pos = p]

\* ------------------------------------------------------------ local names
names12 == <<"casefile", "Au", "lbu", "ubu", "ppopt",
             "N", "fparm", "H", "Cw", "z0", "zl", "zu">>
names17 == <<"baseMVA", "bus", "gen", "branch", "areas", "gencost",
             "Au", "lbu", "ubu", "ppopt",
             "N", "fparm", "H", "Cw", "z0", "zl", "zu">>
LocalNames == {"casefile", "Au", "lbu", "ubu", "ppopt", "N", "fparm", "H",
               "Cw", "z0", "zl", "zu", "userfcn",
               "baseMVA", "bus", "gen", "branch", "areas", "gencost"}
BaseFields == {"baseMVA", "bus", "gen", "branch", "gencost"}
OptFields == {"areas", "A", "l", "u", "N", "Cw", "H", "fparm",
              "z0", "zl", "zu", "userfcn"}
Fields == BaseFields \cup OptFields

\* ------------------------------------------------------------- the frame
\* loc  : the local variables of the call
\* ppc  : the fields of the ppc object (NoField where the key is missing)
\* log  : the messages handed to logger.error, by the line of the call
\* exc  : "none", or the exception that ended the call; line: where raised
Frame(loc, ppcv, logv, exc, line) ==
    [loc |-> loc, ppc |-> ppcv, log |-> logv, exc |-> exc, line |-> line]

Ok(f) == f.exc = "none"
Raise(f, e, ln) == [f EXCEPT !.exc = e, !.line = ln]
LogError(f, ln) == [f EXCEPT !.log = @ \cup {ln}]

\* x = v for every x in S
SetAll(loc, S, v) == [x \in DOMAIN loc |-> IF x \in S THEN v ELSE loc[x]]
\* names[1], ..., names[k] = vals   (tuple unpacking)
Unpack(loc, names, vals) ==
    [x \in DOMAIN loc |->
        IF \E i \in 1..Len(names) : names[i] = x
        THEN vals[CHOOSE i \in 1..Len(names) : names[i] = x]
        ELSE loc[x]]
Prefix(s, k) == SubSeq(s, 1, k)

\* locals on entry: nothing bound but userfcn (line 89) and baseMVA (line 91)
EntryLocals(a) ==
    [x \in LocalNames |->
        IF x = "userfcn" THEN EmptyArray
        ELSE IF x = "baseMVA" THEN a[1]
        ELSE Unbound]

\* ---------------------------------------------------- lines 101-167
HandleArities == {1, 2, 3, 4, 5, 9, 12}
MatrixArities == {6, 7, 8, 9, 10, 14, 17}

\* the tuple object `args` itself, as bound by `casefile = args` (line 165)
ArgsTuple(a) == Val("tuple", 0, Len(a), 0, "True", -1)

DestructureHandle(f, a) ==
    LET n == Len(a)
        l0 == f.loc
        zs == SetAll(l0, {"zu", "zl", "z0"}, EmptyArray)
        cs == SetAll(SetAll(zs, {"Cw", "fparm"}, EmptyArray),
                     {"H", "N"}, NoneVal)
        as == SetAll(SetAll(cs, {"ubu", "lbu"}, EmptyArray), {"Au"}, NoneVal)
    IN  IF n \in HandleArities
        THEN [f EXCEPT !.loc =
                CASE n = 12 -> Unpack(l0, names12, a)
                  [] n = 9  -> Unpack(zs, Prefix(names12, 9), a)
                  [] n = 5  -> Unpack(cs, Prefix(names12, 5), a)
                  [] n = 4  -> Unpack(SetAll(cs, {"ppopt"}, ppoption),
                                      Prefix(names12, 4), a)
                  [] n = 3  -> Unpack(as, <<"casefile", "userfcn", "ppopt">>, a)
                  [] n = 2  -> Unpack(as, <<"casefile", "ppopt">>, a)
                  [] n = 1  -> SetAll(SetAll(as, {"ppopt"}, ppoption),
                                      {"casefile"}, ArgsTuple(a))]
        \* logger.logger.error(...): a Logger has no attribute `logger`
        ELSE Raise(f, "AttributeError", 167)

\* ---------------------------------------------------- lines 201-269
\* At 17, 14 and 10 arguments the target list is split over two lines; the
\* first line is an expression statement that reads bus, gen, ... before
\* any of them is assigned.
DestructureMatrices(f, a) ==
    LET n == Len(a)
        l0 == f.loc
        zs == SetAll(l0, {"zu", "zl", "z0"}, EmptyArray)
        cs == SetAll(SetAll(zs, {"Cw", "fparm"}, EmptyArray),
                     {"H", "N"}, NoneVal)
        as == SetAll(SetAll(cs, {"ubu", "lbu"}, EmptyArray), {"Au"}, NoneVal)
    IN  IF n \in MatrixArities
        THEN CASE n = 17 -> Raise(f, "UnboundLocalError", 203)
               [] n = 14 -> Raise([f EXCEPT !.loc = zs],
                                  "UnboundLocalError", 209)
               [] n = 10 -> Raise([f EXCEPT !.loc = cs],
                                  "UnboundLocalError", 219)
               [] n = 9  -> [f EXCEPT !.loc =
                                Unpack(SetAll(cs, {"ppopt"}, ppoption),
                                       Prefix(names17, 9), a)]
               [] n = 8  -> [f EXCEPT !.loc =
                                Unpack(as, Prefix(names17, 6)
                                           \o <<"userfcn", "ppopt">>, a)]
               [] n = 7  -> [f EXCEPT !.loc =
                                Unpack(as, Prefix(names17, 6)
                                           \o <<"ppopt">>, a)]
               [] n = 6  -> [f EXCEPT !.loc =
                                Unpack(SetAll(as, {"ppopt"}, ppoption),
                                       Prefix(names17, 6), a)]
        ELSE Raise(f, "AttributeError", 269)

\* line 92
IsCaseHandle(v) == v.kind \in {"str", "dict"}


\* ------------------------------------------------- Python's expressions
\* x & y and x | y on non-negative ints
RECURSIVE BitAnd(_, _)
BitAnd(x, y) ==
    IF x = 0 \/ y = 0 THEN 0
    ELSE (IF x % 2 = 1 /\ y % 2 = 1 THEN 1 ELSE 0) + 2 * BitAnd(x \div 2, y \div 2)
RECURSIVE BitOr(_, _)
BitOr(x, y) ==
    IF x = 0 THEN y
    ELSE IF y = 0 THEN x
    ELSE (IF x % 2 = 1 \/ y % 2 = 1 THEN 1 ELSE 0) + 2 * BitOr(x \div 2, y \div 2)
\* int(b) of a bool
BoolInt(b) == IF b THEN 1 ELSE 0

\* the exception of evaluating v.shape[k] for a bound v, or "none"
ShapeExc(v, k) ==
    IF v.kind \notin {"array", "spmatrix"} THEN "AttributeError"
    ELSE IF v.ndim <= k THEN "IndexError"
    ELSE "none"
\* the exception of any(v), or "none"
AnyExc(v) == IF v.anyv \in {"TypeError", "ValueError"} THEN v.anyv ELSE "none"
AnyTrue(v) == v.anyv = "True"
\* the exception of len(v), or "none"; a sparse matrix refuses len()
LenExc(v) ==
    IF v.kind \in {"dict", "str", "tuple", "list"} THEN "none"
    ELSE IF v.kind = "array" /\ v.ndim >= 1 THEN "none"
    ELSE "TypeError"
IsSparse(v) == v.kind = "spmatrix"
has_key(ppcv, k) == ppcv[k].kind # "nofield"

\* ---------------------------------------------------- line 169
\* loadcase: takes a file name or a case struct and returns the case with
\* its embedded optional fields; anything else is a failed load.
LoadcaseOk(casefile) == casefile.kind \in {"str", "dict"}

\* ---------------------------------------------------- lines 176-189
\* if not any(x) & ppc.has_key(k): targets = ppc[keys[1]], ...
\* `&` binds tighter than `not`: the guard is not (any(x) & has_key(k)).
MergeStmt(f, x, k, targets, keys, ln) ==
    IF ~Ok(f) THEN f
    ELSE LET v == f.loc[x] IN
         IF v.kind = "unbound" THEN Raise(f, "UnboundLocalError", ln)
         ELSE IF AnyExc(v) # "none" THEN Raise(f, AnyExc(v), ln)
         ELSE IF ~(AnyTrue(v) /\ has_key(f.ppc, k))
              THEN IF \E i \in 1..Len(keys) : ~has_key(f.ppc, keys[i])
                   THEN Raise(f, "KeyError", ln + 1)
                   ELSE [f EXCEPT !.loc =
                           Unpack(@, targets, [i \in 1..Len(keys) |-> f.ppc[keys[i]]])]
              ELSE f

\* lines 190-191: the adopted value is read as the attribute ppc.userfcn
MergeUserfcn(f) ==
    IF ~Ok(f) THEN f
    ELSE LET v == f.loc["userfcn"] IN
         IF AnyExc(v) # "none" THEN Raise(f, AnyExc(v), 190)
         ELSE IF ~(AnyTrue(v) /\ has_key(f.ppc, "userfcn"))
              THEN IF ~has_key(f.ppc, "userfcn")
                   THEN Raise(f, "AttributeError", 191)
                   ELSE [f EXCEPT !.loc["userfcn"] = f.ppc["userfcn"]]
              ELSE f

\* lines 169-175
LoadStmt(f, casedata) ==
    IF ~Ok(f) THEN f
    ELSE IF f.loc["casefile"].kind = "unbound"
         THEN Raise(f, "UnboundLocalError", 169)
    ELSE IF ~LoadcaseOk(f.loc["casefile"]) THEN Raise(f, "LoadError", 169)
    ELSE IF \E b \in BaseFields : ~has_key(casedata, b)
         THEN Raise(f, "AttributeError", 171)
    ELSE [f EXCEPT
            !.ppc = casedata,
            !.loc = [x \in DOMAIN @ |->
                       IF x \in BaseFields THEN casedata[x]
                       ELSE IF x = "areas"
                            THEN (IF has_key(casedata, "areas")
                                  THEN casedata["areas"] ELSE EmptyArray)
                       ELSE @[x]]]

\* lines 169-191
LoadAndMerge(f, casedata) ==
    MergeUserfcn(
     MergeStmt(
      MergeStmt(
       MergeStmt(
        MergeStmt(
         MergeStmt(
          MergeStmt(
           MergeStmt(LoadStmt(f, casedata),
                     "Au", "A", <<"Au", "lbu", "ubu">>, <<"A", "l", "u">>, 176),
           "N", "N", <<"N", "Cw">>, <<"N", "Cw">>, 178),
          "H", "H", <<"H">>, <<"H">>, 180),
         "fparm", "fparm", <<"fparm">>, <<"fparm">>, 182),
        "z0", "z0", <<"z0">>, <<"z0">>, 184),
       "zl", "zl", <<"zl">>, <<"zl">>, 186),
      "zu", "zu", <<"zu">>, <<"zu">>, 188))

\* ---------------------------------------------------- lines 88, 271-276
want_ppc == 1

NoPpc == [k \in Fields |-> NoField]

BuildPpc(f) ==
    IF ~Ok(f) \/ want_ppc = 0 THEN f
    ELSE IF \E b \in BaseFields : f.loc[b].kind = "unbound"
         THEN Raise(f, "UnboundLocalError", 272)
    ELSE [f EXCEPT !.ppc = [k \in Fields |->
                              IF k \in BaseFields THEN f.loc[k] ELSE NoField]]


\* ---------------------------------------------------- lines 277-299
\* the first exception among the candidates, in evaluation order
FirstExc(es) ==
    IF \E i \in 1..Len(es) : es[i] # "none"
    THEN es[CHOOSE i \in 1..Len(es) :
                es[i] # "none" /\ \A j \in 1..(i - 1) : es[j] = "none"]
    ELSE "none"
BoundExc(v) == IF v.kind = "unbound" THEN "UnboundLocalError" ELSE "none"

\* line 277: nw = N.shape[0]
NwExc(f) == FirstExc(<<BoundExc(f.loc["N"]), ShapeExc(f.loc["N"], 0)>>)
Nw(f) == f.loc["N"].rows

\* lines 279-281: Cw.shape[0] != nw
CheckCw(f) ==
    IF ~Ok(f) THEN f
    ELSE LET Cw == f.loc["Cw"]
             e == FirstExc(<<BoundExc(Cw), ShapeExc(Cw, 0)>>)
         IN  IF e # "none" THEN Raise(f, e, 279)
             ELSE IF Cw.rows # Nw(f) THEN LogError(f, 280) ELSE f

\* lines 282-284: any(fparm) & fparm.shape[0] != nw
\* parsed as (any(fparm) & fparm.shape[0]) != nw
CheckFparm(f) ==
    IF ~Ok(f) THEN f
    ELSE LET fparm == f.loc["fparm"]
             e == FirstExc(<<BoundExc(fparm), AnyExc(fparm), ShapeExc(fparm, 0)>>)
         IN  IF e # "none" THEN Raise(f, e, 282)
             ELSE IF BitAnd(BoolInt(AnyTrue(fparm)), fparm.rows) # Nw(f)
                  THEN LogError(f, 283) ELSE f

\* lines 285-287: any(H) & (H.shape[0] != nw | H.shape[0] != nw)
\* the parenthesis is the chain  H.shape[0] != (nw | H.shape[0]) != nw
CheckH(f) ==
    IF ~Ok(f) THEN f
    ELSE LET H == f.loc["H"]
             e == FirstExc(<<BoundExc(H), AnyExc(H), ShapeExc(H, 0)>>)
             m == BitOr(Nw(f), H.rows)
         IN  IF e # "none" THEN Raise(f, e, 285)
             ELSE IF AnyTrue(H) /\ (H.rows # m /\ m # Nw(f))
                  THEN LogError(f, 286) ELSE f

\* lines 288-290: Au.shape[0] > 0 & N.shape[1] != Au.shape[1]
\* the chain  Au.shape[0] > (0 & N.shape[1]) != Au.shape[1]
CheckAN(f) ==
    IF ~Ok(f) THEN f
    ELSE LET Au == f.loc["Au"]
             N == f.loc["N"]
             e == FirstExc(<<BoundExc(Au), ShapeExc(Au, 0), ShapeExc(N, 1)>>)
             m == BitAnd(0, N.cols)
         IN  IF e # "none" THEN Raise(f, e, 288)
             ELSE IF Au.rows > m
                  THEN IF ShapeExc(Au, 1) # "none"
                       THEN Raise(f, ShapeExc(Au, 1), 288)
                       ELSE IF m # Au.cols THEN LogError(f, 289) ELSE f
                  ELSE f

\* lines 292-296
CheckSparseNH(f) ==
    IF ~Ok(f) THEN f
    ELSE LET g == IF ~IsSparse(f.loc["N"]) THEN LogError(f, 293) ELSE f
         IN  IF ~IsSparse(g.loc["H"]) THEN LogError(g, 296) ELSE g

\* lines 298-299
CheckSparseA(f) ==
    IF ~Ok(f) THEN f
    ELSE IF f.loc["Au"].kind = "unbound" THEN Raise(f, "UnboundLocalError", 298)
    ELSE IF ~IsSparse(f.loc["Au"]) THEN LogError(f, 299) ELSE f

\* lines 277-299
ValidateAll(f) ==
    IF ~Ok(f) THEN f
    ELSE IF NwExc(f) # "none" THEN Raise(f, NwExc(f), 277)
    ELSE IF Nw(f) # 0
         THEN CheckSparseA(CheckSparseNH(CheckAN(CheckH(CheckFparm(CheckCw(f))))))
         ELSE CheckSparseA(f)

\* ---------------------------------------------------- lines 300-301
DefaultOptions(f) ==
    IF ~Ok(f) THEN f
    ELSE LET ppopt == f.loc["ppopt"]
             e == FirstExc(<<BoundExc(ppopt), LenExc(ppopt)>>)
         IN  IF e # "none" THEN Raise(f, e, 300)
             ELSE IF ppopt.rows = 0 THEN [f EXCEPT !.loc["ppopt"] = ppoption]
             ELSE f

\* ---------------------------------------------------- lines 303-320
\* if any(x): ppc[keys[i]] = sources[i]
StoreStmt(f, x, sources, keys, ln) ==
    IF ~Ok(f) THEN f
    ELSE LET v == f.loc[x]
             e == FirstExc(<<BoundExc(v), AnyExc(v)>>)
         IN  IF e # "none" THEN Raise(f, e, ln)
             ELSE IF AnyTrue(v)
                  THEN IF \E i \in 1..Len(sources) : f.loc[sources[i]].kind = "unbound"
                       THEN Raise(f, "UnboundLocalError", ln + 1)
                       ELSE [f EXCEPT !.ppc =
                               [k \in DOMAIN @ |->
                                  IF \E i \in 1..Len(keys) : keys[i] = k
                                  THEN f.loc[sources[CHOOSE i \in 1..Len(keys) : keys[i] = k]]
                                  ELSE @[k]]]
                  ELSE f

\* lines 307-312: fparm and H are stored only under `if any(N)`
StoreCost(f) ==
    LET g == StoreStmt(f, "N", <<"N", "Cw">>, <<"N", "Cw">>, 307)
    IN  IF Ok(f) /\ Ok(g) /\ AnyTrue(f.loc["N"])
        THEN StoreStmt(StoreStmt(g, "fparm", <<"fparm">>, <<"fparm">>, 309),
                       "H", <<"H">>, <<"H">>, 311)
        ELSE g

StoreAll(f) ==
    StoreStmt(
     StoreStmt(
      StoreStmt(
       StoreStmt(
        StoreCost(
         StoreStmt(
          StoreStmt(f, "areas", <<"areas">>, <<"areas">>, 303),
          "Au", <<"Au", "lbu", "ubu">>, <<"A", "l", "u">>, 305)),
        "z0", <<"z0">>, <<"z0">>, 313),
       "zl", <<"zl">>, <<"zl">>, 315),
      "zu", <<"zu">>, <<"zu">>, 317),
     "userfcn", <<"userfcn">>, <<"userfcn">>, 319)

\* ---------------------------------------------------- lines 324 / 326-327
Return12 == <<"ppc", "Au", "lbu", "ubu", "ppopt",
              "N", "fparm", "H", "Cw", "z0", "zl", "zu">>
Return18 == <<"baseMVA", "bus", "gen", "branch", "gencost", "Au", "lbu", "ubu",
              "ppopt", "N", "fparm", "H", "Cw", "z0", "zl", "zu",
              "userfcn", "areas">>

\* lines 300-327: the frame before the return statement
AssembleAll(f) ==
    IF want_ppc # 0 THEN StoreAll(DefaultOptions(f)) ELSE DefaultOptions(f)

ReturnNames18 == Return18
ReturnNames == IF want_ppc # 0 THEN Return12 ELSE Return18
ReturnExc(f) ==
    IF \E i \in 1..Len(ReturnNames) :
          ReturnNames[i] # "ppc" /\ f.loc[ReturnNames[i]].kind = "unbound"
    THEN "UnboundLocalError" ELSE "none"
ReturnValue(f) ==
    [i \in 1..Len(ReturnNames) |->
        IF ReturnNames[i] = "ppc" THEN PpcRef ELSE f.loc[ReturnNames[i]]]


\* ------------------------------------------------------- the whole call
\* lines 86-167 / 201-269
DispatchAll(a) ==
    IF Len(a) = 0
    THEN Raise(Frame([x \in LocalNames |-> Unbound], NoPpc, {}, "none", 0),
               "IndexError", 91)
    ELSE LET f == Frame(EntryLocals(a), NoPpc, {}, "none", 0)
         IN  IF IsCaseHandle(a[1]) THEN DestructureHandle(f, a)
             ELSE DestructureMatrices(f, a)

\* lines 86-327
RunAll(a, casedata) ==
    LET d == DispatchAll(a)
        m == IF Len(a) > 0 /\ IsCaseHandle(a[1])
             THEN LoadAndMerge(d, casedata) ELSE BuildPpc(d)
        e == AssembleAll(ValidateAll(m))
    IN  IF Ok(e) /\ ReturnExc(e) # "none" THEN Raise(e, ReturnExc(e), 324)
        ELSE e

\* ---------------------------------------------------------------- inputs
Sparse(r, c, a) == Val("spmatrix", 2, r, c, a, 0)
Dense(r, c, a) == Val("array", 2, r, c, a, 0)
Vec(n, a) == Val("array", 1, n, 0, a, 0)
CaseStr == Val("str", 0, 1, 0, "True", 0)
CaseDict == Val("dict", 0, 5, 0, "True", 0)
Scalar == Val("scalar", 0, 0, 0, "TypeError", 0)
Table == Dense(1, 1, "True")
Callback == Val("function", 0, 0, 0, "TypeError", 0)
\* the callbacks a case embeds: a non-empty list of them
CallbackList == Val("list", 0, 1, 0, "True", 0)
OptsTable == Val("dict", 0, 2, 0, "True", 0)

\* what builtin any() can answer on a matrix of this type and shape: a row
\* of a dense matrix with two or more entries has no truth value; a row of a
\* sparse matrix has one or not, with the scipy release
AnyOutcomes(kind, r, c) ==
    IF r = 0 THEN {"False"}
    ELSE IF c <= 1 THEN {"True", "False"}
    ELSE IF kind = "array" THEN {"ValueError"}
    ELSE {"True", "False", "ValueError"}

\* the documented signatures (docstring, lines 35-51); an argument the
\* signature does not name is "extra"
HandleSig(n) ==
    CASE n = 1 -> <<"casefile">>
      [] n = 2 -> <<"casefile", "ppopt">>
      [] n = 3 -> <<"casefile", "userfcn", "ppopt">>
      [] n \in {4, 5, 9, 12} -> Prefix(names12, n)
      [] OTHER -> [i \in 1..n |-> IF i = 1 THEN "casefile" ELSE "extra"]
MatrixSig(n) ==
    IF n \in MatrixArities
    THEN Prefix(names17, 6) \o Tail(HandleSig(n - 5))
    ELSE [i \in 1..n |-> IF i = 1 THEN "baseMVA" ELSE "extra"]

CompNames == LocalNames \cup {"extra"}
\* the argument list of a call of n arguments whose first argument is `first`
ArgList(first, n, comp) ==
    LET sig == IF IsCaseHandle(first) THEN HandleSig(n) ELSE MatrixSig(n)
    IN  [i \in 1..n |-> IF i = 1 THEN At(first, 1) ELSE At(comp[sig[i]], i)]

BaseComp ==
    [x \in CompNames |->
        CASE x \in {"bus", "gen", "branch", "areas", "gencost"} -> Table
          [] x = "Au" -> Sparse(1, 2, "True")
          [] x = "N" -> Sparse(1, 2, "True")
          [] x = "H" -> Sparse(1, 1, "True")
          [] x = "fparm" -> Dense(1, 1, "True")
          [] x \in {"lbu", "ubu", "Cw", "z0", "zl", "zu"} -> Vec(1, "True")
          [] x = "ppopt" -> OptsTable
          [] x = "userfcn" -> Callback
          [] x = "casefile" -> CaseStr
          [] OTHER -> Scalar]

FullCase ==
    [k \in Fields |->
        CASE k = "baseMVA" -> Scalar
          [] k \in {"bus", "gen", "branch", "areas", "gencost"} -> Table
          [] k \in {"A", "N"} -> Sparse(1, 2, "True")
          [] k = "H" -> Sparse(1, 1, "True")
          [] k = "fparm" -> Dense(1, 1, "True")
          [] k = "userfcn" -> CallbackList
          [] OTHER -> Vec(1, "True")]
Without(c, S) == [k \in DOMAIN c |-> IF k \in S THEN NoField ELSE c[k]]
BareCase == Without(FullCase, OptFields)

With(c, x, v) == [c EXCEPT ![x] = v]
Input(a, c) == [args |-> a, casedata |-> c]

\* every arity under every convention, options passed empty or not
ArityInputs ==
    {Input(ArgList(first, n, With(BaseComp, "ppopt", o)), c) :
        first \in {CaseStr, CaseDict, Scalar}, n \in 0..MaxNargin,
        o \in {OptsTable, Vec(0, "False")}, c \in {FullCase, BareCase}}

\* how a component is passed: empty, all zero, or with a non-zero entry
Passed(v) == {Vec(0, "False"), [v EXCEPT !.anyv = "False"], v}
MissingSets == {{}} \cup {{k} : k \in OptFields}
MergeInputs ==
    {Input(ArgList(CaseStr, n,
            [BaseComp EXCEPT !["Au"] = A, !["N"] = N, !["H"] = H,
                             !["fparm"] = fp, !["z0"] = z0, !["Cw"] = Cw]),
           Without(FullCase, miss)) :
        n \in {9, 12},
        A \in Passed(BaseComp["Au"]), N \in Passed(BaseComp["N"]),
        H \in Passed(BaseComp["H"]), fp \in Passed(BaseComp["fparm"]),
        z0 \in Passed(BaseComp["z0"]),
        Cw \in {Vec(0, "False"), BaseComp["Cw"]},
        miss \in MissingSets}

\* shapes and types of the generalized cost and of A
Matrices(kinds, rs, cs) ==
    {Val(k, 2, r, c, a, 0) : k \in kinds, r \in rs, c \in cs,
                             a \in {"True", "False", "ValueError"}}
WellFormed(v) == v.anyv \in AnyOutcomes(v.kind, v.rows, v.cols)
DimN == {v \in Matrices({"spmatrix", "array"}, 0..MaxDim, 1..MaxDim) : WellFormed(v)}
DimCw == {Vec(n, IF n = 0 THEN "False" ELSE "True") : n \in 0..(MaxDim + 1)}
DimFparm == {Vec(0, "False"), Dense(1, 2, "ValueError")}
            \cup {Dense(r, 1, "True") : r \in 1..MaxDim}
DimH == {Vec(0, "False"), Dense(1, 1, "True")}
        \cup {Sparse(r, c, "True") : r \in 1..MaxDim, c \in 1..MaxDim}
DimA == {Vec(0, "False"), Dense(1, 1, "True")}
        \cup {Sparse(1, c, "True") : c \in 1..MaxDim}
DimInputs ==
    {Input(ArgList(CaseStr, 12,
            [BaseComp EXCEPT !["Au"] = A, !["N"] = N, !["H"] = H,
                             !["fparm"] = fp, !["Cw"] = Cw]),
           FullCase) :
        A \in DimA, N \in DimN, H \in DimH, fp \in DimFparm, Cw \in DimCw}

\* what the case may embed when every component is passed empty
EmbedInputs ==
    {Input(ArgList(CaseStr, n,
            [x \in CompNames |->
                IF x \in {"Au", "lbu", "ubu", "N", "fparm", "H", "Cw",
                          "z0", "zl", "zu"}
                THEN Vec(0, "False") ELSE BaseComp[x]]),
           [FullCase EXCEPT !["A"] = A, !["N"] = N, !["areas"] = ar,
                            !["userfcn"] = uf]) :
        n \in {9, 12}, uf \in {CallbackList, Callback},
        A \in {Sparse(1, 2, "True"), Dense(1, 1, "True"), Vec(0, "False")},
        N \in {Sparse(1, 2, "True"), Vec(0, "False"), NoneVal},
        ar \in {NoField, Table, Dense(1, 2, "ValueError")}}

InputFamilies == <<ArityInputs, MergeInputs, DimInputs, EmbedInputs>>

\* ---------------------------------------------------------- state machine
VARIABLES args, casedata, pc, frame, result
vars == <<args, casedata, pc, frame, result>>

NoResult == <<>>

Init ==
    /\ \E k \in 1..Len(InputFamilies) :
          \E i \in InputFamilies[k] : args = i.args /\ casedata = i.casedata
    /\ pc = "entry"
    /\ frame = Frame([x \in LocalNames |-> Unbound], NoPpc, {}, "none", 0)
    /\ result = NoResult

\* lines 86-167 / 201-269
Dispatch ==
    /\ pc = "entry"
    /\ frame' = DispatchAll(args)
    /\ pc' = IF ~Ok(frame') THEN "done"
             ELSE IF IsCaseHandle(args[1]) THEN "load" ELSE "build"
    /\ UNCHANGED <<args, casedata, result>>

\* lines 169-191
LoadMerge ==
    /\ pc = "load"
    /\ frame' = LoadAndMerge(frame, casedata)
    /\ pc' = IF Ok(frame') THEN "validate" ELSE "done"
    /\ UNCHANGED <<args, casedata, result>>

\* lines 271-276
MakePpc ==
    /\ pc = "build"
    /\ frame' = BuildPpc(frame)
    /\ pc' = IF Ok(frame') THEN "validate" ELSE "done"
    /\ UNCHANGED <<args, casedata, result>>

\* lines 277-299
Validate ==
    /\ pc = "validate"
    /\ frame' = ValidateAll(frame)
    /\ pc' = IF Ok(frame') THEN "assemble" ELSE "done"
    /\ UNCHANGED <<args, casedata, result>>

\* lines 300-327
Assemble ==
    /\ pc = "assemble"
    /\ LET e == AssembleAll(frame)
       IN  IF Ok(e) /\ ReturnExc(e) = "none"
           THEN frame' = e /\ result' = ReturnValue(e)
           ELSE /\ frame' = (IF Ok(e) THEN Raise(e, ReturnExc(e), 324) ELSE e)
                /\ result' = NoResult
    /\ pc' = "done"
    /\ UNCHANGED <<args, casedata>>

Next == Dispatch \/ LoadMerge \/ MakePpc \/ Validate \/ Assemble

Spec == Init /\ [][Next]_vars

Returned == pc = "done" /\ frame.exc = "none"
Raised == pc = "done" /\ frame.exc # "none"


\* ------------------------------------------------- vocabulary of the claims
nargin == Len(args)
Handle == nargin >= 1 /\ IsCaseHandle(args[1])
Matrices6 == nargin >= 1 /\ ~IsCaseHandle(args[1])
Recognized == (Handle /\ nargin \in HandleArities)
              \/ (Matrices6 /\ nargin \in MatrixArities)
Sig == IF Handle THEN HandleSig(nargin) ELSE MatrixSig(nargin)
Supplied(x) == \E i \in 1..nargin : Sig[i] = x
ArgOf(x) == args[CHOOSE i \in 1..nargin : Sig[i] = x]

OptComps == {"Au", "lbu", "ubu", "N", "Cw", "fparm", "H",
             "z0", "zl", "zu", "userfcn"}
FieldOf(x) ==
    CASE x = "Au" -> "A" [] x = "lbu" -> "l" [] x = "ubu" -> "u" [] OTHER -> x

\* a non-empty matrix or vector; the absent markers of the code
Present(v) == v.kind \in {"array", "spmatrix"} /\ v.rows >= 1
NonEmpty(v) == Present(v) \/ v.kind \in {"function", "list", "dict", "str"}
AbsentMarker(v) == v.kind = "None" \/ (v.kind = "array" /\ v.rows = 0)

\* the component x of the returned tuple (userfcn travels in the locals)
Res(x) ==
    IF \E i \in 1..Len(result) : Return12[i] = x
    THEN result[CHOOSE i \in 1..Len(result) : Return12[i] = x]
    ELSE frame.loc[x]

AfterDestructure ==
    pc \in {"load", "build"}
    \/ (pc = "done" /\ frame.line \in {167, 203, 209, 219, 269})
AfterMerge == pc = "validate" \/ (pc = "done" /\ frame.line \in 176..191)
AfterValidate == pc = "assemble"

\* the validation rules as the design states them, on the merged components
Rule1(l) == Present(l["N"]) => l["Cw"].rows = l["N"].rows
Rule2(l) == (Present(l["N"]) /\ Present(l["fparm"]))
                => l["fparm"].rows = l["N"].rows
Rule3(l) == (Present(l["N"]) /\ Present(l["H"]))
                => (l["H"].rows = l["N"].rows /\ l["H"].cols = l["N"].rows)
Rule4(l) == (Present(l["N"]) /\ Present(l["Au"]))
                => l["Au"].cols = l["N"].cols
Rule5(l) == (Present(l["N"]) => IsSparse(l["N"]))
            /\ (Present(l["H"]) => IsSparse(l["H"]))
Rule6(l) == Present(l["Au"]) => IsSparse(l["Au"])
DimensionLines == {280, 283, 286, 289}

\* ------------------------------------------------------------------ claims

\* C1: a call whose argument count is outside the recognized set of its
\* convention ends in an arity error and returns no result tuple.
C1_ArityRejection ==
    (pc = "done" /\ nargin >= 1 /\ ~Recognized)
        => (frame.exc = "ArityError" /\ result = NoResult)

\* C2: no call returns the result tuple while a validation rule is violated
\* on the merged components (in particular N with R rows and Cw with R+1).
C2_FailFast ==
    Returned => (/\ Rule1(frame.loc) /\ Rule2(frame.loc) /\ Rule3(frame.loc)
                 /\ Rule4(frame.loc) /\ Rule5(frame.loc) /\ Rule6(frame.loc))

\* C3: at every recognized arity, after destructuring every component is
\* defined: a supplied one is the argument at its documented position (the
\* case handle at arity 1 is the first argument), an omitted one is an
\* absent marker (the default table for options).
C3_Destructuring ==
    (AfterDestructure /\ Recognized) =>
        /\ Ok(frame)
        /\ \A x \in OptComps \cup {"ppopt"} \cup
                    (IF Handle THEN {"casefile"}
                     ELSE {"baseMVA", "bus", "gen", "branch", "areas", "gencost"}) :
              IF Supplied(x) THEN frame.loc[x] = ArgOf(x)
              ELSE /\ frame.loc[x].pos = -1
                   /\ (AbsentMarker(frame.loc[x])
                       \/ (x = "ppopt" /\ frame.loc[x] = ppoption))

\* C4: under the case-handle convention a component the caller passed
\* non-empty (all-zero included; l and u go with A, Cw stands alone) is the
\* value of that component in the result, whatever the case embeds.
GroupOf(x) == IF x \in {"lbu", "ubu"} THEN "Au" ELSE x
C4_ExplicitOverrides ==
    (Returned /\ Handle) =>
        \A x \in OptComps :
            (Supplied(x) /\ NonEmpty(ArgOf(x)) /\ NonEmpty(ArgOf(GroupOf(x))))
                => Res(x) = ArgOf(x)

\* C5: under the case-handle convention the merge completes without error,
\* and a component the caller did not pass, or passed empty, is the
\* case-embedded value when the case has the field and an absent marker
\* when it has not.
C5_CaseAdoption ==
    (AfterMerge /\ Handle /\ Recognized) =>
        /\ Ok(frame)
        /\ \A x \in OptComps :
              (~Supplied(x) \/ ~NonEmpty(ArgOf(x))) =>
                  IF has_key(casedata, FieldOf(x))
                  THEN frame.loc[x] = casedata[FieldOf(x)]
                  ELSE AbsentMarker(frame.loc[x])

\* C6: every call that returns, returns the 12 components (ppc, A, l, u,
\* options, N, fparm, H, Cw, z0, zl, zu) in this order, every position
\* holding a defined value; the 18-component tuple is never returned.
C6_ReturnContract ==
    Returned =>
        /\ Len(result) = 12
        /\ result[1] = PpcRef
        /\ \A i \in 2..12 : /\ result[i] = frame.loc[names12[i]]
                            /\ result[i].kind \notin {"unbound", "nofield"}
C6_Witness == Returned /\ nargin = 9 /\ frame.loc["z0"].pos = 0

\* C7: the options of the result are the default table when the arity omits
\* options or an empty options value is passed, and the passed value
\* otherwise; the arity-4 call (case, A, l, u) on a case without N returns
\* N absent, A, l, u as passed and the default options.
C7_OptionsDefault ==
    /\ Returned =>
          Res("ppopt") = (IF Supplied("ppopt") /\ ArgOf("ppopt").rows > 0
                          THEN ArgOf("ppopt") ELSE ppoption)
    /\ (pc = "done" /\ Handle /\ nargin = 4 /\ ~has_key(casedata, "N")) =>
          /\ Returned
          /\ Res("ppopt") = ppoption
          /\ AbsentMarker(Res("N"))
          /\ \A x \in {"Au", "lbu", "ubu"} : Res(x) = ArgOf(x)

\* C8: a call whose merged A is present and dense does not return (it fails
\* with the sparse-type error), and the sparse-type error for A is reported
\* only for an A that is present and dense.
C8_SparseA ==
    /\ Returned => (Present(frame.loc["Au"]) => IsSparse(frame.loc["Au"]))
    /\ (pc \in {"assemble", "done"} /\ 299 \in frame.log) =>
          (Present(frame.loc["Au"]) /\ ~IsSparse(frame.loc["Au"]))

\* C9: the case-handle call of arity k on a case C and the explicit-matrices
\* call of arity k+5 on the six leading fields of C, with the same further
\* arguments, give the same result.
Repos(a) == [i \in 1..Len(a) |-> At(a[i], i)]
TwinArgs(a, c) ==
    Repos(<<c["baseMVA"], c["bus"], c["gen"], c["branch"],
            (IF has_key(c, "areas") THEN c["areas"] ELSE Vec(0, "False")),
            c["gencost"]>> \o Tail(a))
Strip(v) == At(v, 0)
C9_ConventionIndependence ==
    (Returned /\ Handle /\ \A i \in 2..12 : result[i].pos >= 1) =>
        LET t == RunAll(TwinArgs(args, casedata), casedata)
        IN  /\ Ok(t)
            /\ \A i \in 2..12 :
                  Strip(t.loc[names12[i]]) = Strip(frame.loc[names12[i]])

\* C10: with N present, a dimension mismatch is reported exactly when Cw's
\* rows differ from N's rows, or fparm is present with other rows than N,
\* or H is present and not N.rows x N.rows, or A is present and its columns
\* differ from N's columns.
C10_DimensionPredicate ==
    (AfterValidate /\ Present(frame.loc["N"])) =>
        ((frame.log \cap DimensionLines # {})
            <=> ~(/\ Rule1(frame.loc) /\ Rule2(frame.loc)
                  /\ Rule3(frame.loc) /\ Rule4(frame.loc)))

====
